---- MODULE Spec2Model ----
(***************************************************************************)
(* Model of the inlineedit component (src/index.js): a machina.js finite   *)
(* state machine with the states ready / editing / saving that decides     *)
(* which of the display element, the form and the spinner is mounted in    *)
(* the container, and that owns the committed value.                       *)
(*                                                                         *)
(* One action of the model is one run-to-completion entry into the         *)
(* component from the event loop: the constructor, a delegated DOM event,  *)
(* a direct handle()/transition() call, an invocation of a submitForm      *)
(* completion callback, or a change of the form's input.                   *)
(***************************************************************************)
EXTENDS Integers, Sequences, FiniteSets, TLC

\* bounds of the model
MaxEpisodes == 2    \* entries into saving (submitForm calls) in one run
MaxDepth == 3       \* functions returning functions handed to normalizeElement

----------------------------------------------------------------------------
\* JavaScript values that flow through the value hooks

Str(s)    == [kind |-> "string", chars |-> s]
Null      == [kind |-> "null", chars |-> <<>>]
Undefined == [kind |-> "undefined", chars |-> <<>>]

\* the strings a user can type / a hook can hand back
Strings == { <<>>, <<" ", "a">> }
\* the text content the display element may start with
Texts   == { <<"a", " ">> }
\* second argument of the completion callback
NewVals == { Undefined, Null } \cup { Str(s) : s \in Strings }
\* first argument of the completion callback: "none" is a falsy err
NoErr   == "none"
Errs    == { "e1", "e2" }
ErrArgs == { NoErr } \cup Errs
\* the ways done(err, newVal) is invoked: done(), done(null, X), done(e),
\* done(e, X)
DoneArgs ==
    { [err |-> NoErr, newVal |-> nv] : nv \in NewVals } \cup
    { [err |-> e, newVal |-> nv] : e \in Errs, nv \in { Undefined, Str(<<>>) } }

States   == { "ready", "editing", "saving" }
Triggers == { "click", "submit", "cancel", "success", "error" }
\* the triggers the delegated listeners produce
UITriggers == { "click", "submit", "cancel" }

RECURSIVE TrimLeft(_)
TrimLeft(s) ==
    IF s # <<>> /\ Head(s) = " " THEN TrimLeft(Tail(s)) ELSE s

RECURSIVE TrimRight(_)
TrimRight(s) ==
    IF s # <<>> /\ s[Len(s)] = " " THEN TrimRight(SubSeq(s, 1, Len(s) - 1)) ELSE s

\* trim(str) of the "trim" component, on the characters of a string
trim(s) == TrimRight(TrimLeft(s))

\* what `input.value = val` stores in a text input
InputString(v) ==
    CASE v.kind = "string"    -> v.chars
      [] v.kind = "null"      -> <<>>
      [] v.kind = "undefined" -> <<"u", "n", "d", "e", "f", "i", "n", "e", "d">>

----------------------------------------------------------------------------
VARIABLES
    state,          \* machina's this.state ("undefined" before construction)
    value,          \* this.value, the committed value
    parentKids,     \* children of the display element's original parent
    containerKids,  \* children of this.container
    elementText,    \* text content of this.element
    formInput,      \* value of the form's first input
    bound,          \* the three delegated listeners are bound
    closures,       \* the completion callbacks handed to submitForm so far:
                    \* the captured val and a status: "pending" (not invoked
                    \* yet), "abandoned" (not invoked yet, its episode ended
                    \* by a caller's transition()), "called", or "orphaned"
                    \* (it belongs to a destroyed instance that was replaced
                    \* by a fresh one)
    inputQueue,     \* machina's queue of deferred inputs
    log,            \* what the last entry into the component did, in order
    norm            \* a call of normalizeElement: receiver, argument, outcome

vars == << state, value, parentKids, containerKids, elementText, formInput,
           bound, closures, inputQueue, log, norm >>

\* one entry of the log
E(ev, a, b, v, n) == [ev |-> ev, a |-> a, b |-> b, c |-> "", v |-> v, n |-> n]

\* the component's state as one record, threaded through the handlers
Machine ==
    [state |-> state, value |-> value, parentKids |-> parentKids,
     containerKids |-> containerKids, elementText |-> elementText,
     formInput |-> formInput, bound |-> bound, closures |-> closures,
     inputQueue |-> inputQueue, log |-> <<>>]

Note(m, ev, a, b, v, n) == [m EXCEPT !.log = Append(@, E(ev, a, b, v, n))]

\* behaviour of the submitForm hook on one call: it invokes done(err, newVal)
\* before returning ("sync") or keeps the callback for later ("async")
AsyncHook == [mode |-> "async", err |-> NoErr, newVal |-> Undefined]

Hooks ==
    { AsyncHook } \cup
    { [mode |-> "sync", err |-> a.err, newVal |-> a.newVal] : a \in DoneArgs }

----------------------------------------------------------------------------
\* DOM helpers

Without(kids, n) == SelectSeq(kids, LAMBDA k : k # n)

Has(kids, n) == \E i \in 1..Len(kids) : kids[i] = n

\* wrap(el, wrapper): the wrapper takes el's place, el becomes its child
wrap(m) ==
    [m EXCEPT !.parentKids =
                  [i \in 1..Len(@) |-> IF @[i] = "element" THEN "container" ELSE @[i]],
              !.containerKids = Append(Without(@, "element"), "element")]

\* showElement that appends without emptying the container first
showElement_append(m, el) ==
    Note([m EXCEPT !.containerKids = Append(Without(@, el), el),
                   !.parentKids = Without(@, el)],
         "showElement", el, "", Undefined, 0)

\* showElement that puts el in the container's place in the parent
showElement_inPlace(m, el) ==
    Note([m EXCEPT !.containerKids = Without(@, el),
                   !.parentKids =
                       LET rest == Without(@, el)
                       IN  [i \in 1..Len(rest) |->
                              IF rest[i] = "container" THEN el ELSE rest[i]]],
         "showElement", el, "", Undefined, 0)

\* showElement(el): empty the container, append el (which leaves its old parent)
showElement(m, el) ==
    Note([m EXCEPT !.containerKids = << el >>,
                   !.parentKids = Without(@, el)],
         "showElement", el, "", Undefined, 0)

----------------------------------------------------------------------------
\* the overridable hooks, with their default behaviour

\* parseValue(el): trim(text(el))
parseValue(m) == Str(trim(m.elementText))

\* formatValue(val, el): text(el, trim(val)); trim throws on a non-string
formatValue(m, val) ==
    IF val.kind = "string"
    THEN Note([m EXCEPT !.elementText = trim(val.chars)],
              "formatValue", "element", "", val, 0)
    ELSE Note(Note(m, "formatValue", "element", "", val, 0),
              "throw", "TypeError", "", Undefined, 0)

\* populateForm(val, form): input.value = val; input.focus()
populateForm(m, val) ==
    Note([m EXCEPT !.formInput = InputString(val)],
         "populateForm", "form", "", val, 0)

\* processForm(form): the first input's value
processForm(m) == Str(m.formInput)

----------------------------------------------------------------------------
\* the state machine (machina.Fsm extended with the states table)

\* states[s][t] is defined
Accepts(s, t) ==
    \/ s = "ready"   /\ t = "click"
    \/ s = "editing" /\ t \in { "cancel", "submit" }
    \/ s = "saving"  /\ t \in { "success", "error" }

\* the episode that ends when the machine leaves saving: remember that a
\* caller's transition() ended it before its completion callback was invoked
LeaveEpisode(m, cause) ==
    IF /\ m.state = "saving" /\ cause = "forced"
       /\ Len(m.closures) > 0
       /\ m.closures[Len(m.closures)].status = "pending"
    THEN [m EXCEPT !.closures[Len(m.closures)].status = "abandoned"]
    ELSE m

RECURSIVE transition(_, _, _, _)
RECURSIVE handle(_, _, _, _, _)

\* a ready entry that shows the display element but does not format it
ReadyOnEnter_noFormat(m) ==
    IF ~ Has(m.containerKids, "element")
    THEN showElement(m, "element")
    ELSE m

\* a ready entry without the guard
ReadyOnEnter_always(m) ==
    LET shown == showElement(m, "element")
    IN  formatValue(shown, shown.value)

\* states.ready._onEnter
ReadyOnEnter(m) ==
    IF ~ Has(m.containerKids, "element")
    THEN LET shown == showElement(m, "element")
         IN  formatValue(shown, shown.value)
    ELSE m

\* an editing entry that leaves in the form what the user typed
EditingOnEnter_keepInput(m) ==
    LET shown == showElement(m, "form")
    IN  populateForm(shown, Str(shown.formInput))

\* an editing entry that populates the form without showing it
EditingOnEnter_populateOnly(m) == populateForm(m, m.value)

\* states.editing._onEnter
EditingOnEnter(m) ==
    LET shown == showElement(m, "form")
    IN  populateForm(shown, shown.value)

\* a callback that reads the form again instead of using the captured val
SuccessValue_reread(m, val, newVal) ==
    IF newVal # Undefined THEN newVal ELSE processForm(m)

\* a callback that takes the replacement only when it is truthy (newVal || val)
SuccessValue_truthy(m, val, newVal) ==
    IF newVal \notin { Undefined, Null, Str(<<>>) } THEN newVal ELSE val

\* the value the completion callback hands to the success handler
SuccessValue(m, val, newVal) ==
    IF newVal # Undefined THEN newVal ELSE val

\* a callback that looks at the replacement value before it looks at err
SubmitCallback_newValFirst(m, k, err, newVal, h) ==
    LET called == [m EXCEPT !.closures[k].status = "called"]
    IN  IF newVal # Undefined
        THEN handle(called, "success", NoErr, newVal, h)
        ELSE IF err # NoErr
             THEN handle(called, "error", err, Undefined, h)
             ELSE handle(called, "success", NoErr, called.closures[k].val, h)

\* function (err, newVal) { ... } handed to submitForm; k is the closure,
\* whose captured variable val is closures[k].val
SubmitCallback(m, k, err, newVal, h) ==
    LET called == [m EXCEPT !.closures[k].status = "called"]
    IN  IF err # NoErr
        THEN handle(called, "error", err, Undefined, h)
        ELSE handle(called, "success", NoErr,
                    SuccessValue(called, called.closures[k].val, newVal), h)

\* a saving entry that shows the spinner after submitForm has returned
SavingOnEnter_spinnerLast(m, h) ==
    LET val     == processForm(m)
        read    == Note(m, "processForm", "form", "", val, 0)
        k       == Len(read.closures) + 1
        pending == Note([read EXCEPT !.closures =
                             Append(@, [val |-> val, status |-> "pending"])],
                        "submitForm", "", "", val, k)
        back    == IF h.mode = "sync"
                   THEN SubmitCallback(pending, k, h.err, h.newVal, h)
                   ELSE pending
    IN  showElement(back, "spinner")

\* states.saving._onEnter
SavingOnEnter(m, h) ==
    LET val     == processForm(m)
        read    == Note(m, "processForm", "form", "", val, 0)
        shown   == showElement(read, "spinner")
        k       == Len(shown.closures) + 1
        pending == Note([shown EXCEPT !.closures =
                             Append(@, [val |-> val, status |-> "pending"])],
                        "submitForm", "", "", val, k)
    IN  IF h.mode = "sync"
        THEN SubmitCallback(pending, k, h.err, h.newVal, h)
        ELSE pending

\* a click handler that goes straight to saving
ReadyClick_saving(m, h) == transition(m, "saving", "click", h)

\* states.ready.click
ReadyClick(m, h) == transition(m, "editing", "click", h)

\* a cancel handler that submits instead
EditingCancel_saving(m, h) == transition(m, "saving", "cancel", h)

\* states.editing.cancel
EditingCancel(m, h) == transition(m, "ready", "cancel", h)

\* a submit handler that commits the form's value before it is saved
EditingSubmit_optimistic(m, h) ==
    transition([m EXCEPT !.value = processForm(m)], "saving", "submit", h)

\* states.editing.submit
EditingSubmit(m, h) == transition(m, "saving", "submit", h)

\* success handler that emits saved before it assigns the value
SavingSuccess_emitFirst(m, val, h) ==
    LET emitted  == Note(m, "emit", "saved", "", m.value, 0)
        assigned == [emitted EXCEPT !.value = val]
    IN  transition(assigned, "ready", "success", h)

\* states.saving.success; the entry of the notification records this.value
\* as the listeners of saved read it
SavingSuccess(m, val, h) ==
    LET assigned == [m EXCEPT !.value = val]
        emitted  == Note(assigned, "emit", "saved", "", assigned.value, 0)
    IN  transition(emitted, "ready", "success", h)

\* states.saving.error
SavingError(m, err, h) ==
    LET emitted == Note(m, "emit", "error", err, Undefined, 0)
    IN  transition(emitted, "editing", "error", h)

\* an unhandled input that is deferred for replay instead of dropped
NoHandler_defer(m, inputType) ==
    Note([m EXCEPT !.inputQueue = Append(@, inputType)],
         "nohandler", inputType, "", Undefined, 0)

\* an input the current state has no handler for: machina emits "nohandler"
\* and drops it (nothing is deferred)
NoHandler(m, inputType) ==
    Note(m, "nohandler", inputType, "", Undefined, 0)

\* machina's Fsm#transition: ignored when the target is the current state;
\* sets the state, then runs the target's _onEnter.  cause is the trigger
\* whose handler asked for the transition, "forced" for a caller's
\* transition() and "init" for the constructor's
transition(m, newState, cause, h) ==
    IF newState = m.state
    THEN m
    ELSE LET left    == LeaveEpisode(m, cause)
             entered == [left EXCEPT
                            !.state = newState,
                            !.log = Append(@, [E("transition", m.state, newState,
                                                 Undefined, 0)
                                               EXCEPT !.c = cause])]
         IN  CASE newState = "ready"   -> ReadyOnEnter(entered)
               [] newState = "editing" -> EditingOnEnter(entered)
               [] newState = "saving"  -> SavingOnEnter(entered, h)

\* machina's Fsm#handle: dispatch to the current state's handler, if any
handle(m, inputType, err, val, h) ==
    IF Accepts(m.state, inputType)
    THEN LET handling == Note(m, "handling", inputType, err, val, 0)
         IN  CASE inputType = "click"   -> ReadyClick(handling, h)
               [] inputType = "cancel"  -> EditingCancel(handling, h)
               [] inputType = "submit"  -> EditingSubmit(handling, h)
               [] inputType = "success" -> SavingSuccess(handling, val, h)
               [] inputType = "error"   -> SavingError(handling, err, h)
    ELSE NoHandler(m, inputType)

\* proxyEvent that dispatches first and prevents the default afterwards
proxyEvent_handleFirst(m, inputType, h) ==
    Note(handle(m, inputType, NoErr, Undefined, h),
         "preventDefault", inputType, "", Undefined, 0)

\* proxyEvent(e, type): e.preventDefault(); this.handle(type || e.type)
proxyEvent(m, inputType, h) ==
    handle(Note(m, "preventDefault", inputType, "", Undefined, 0),
           inputType, NoErr, Undefined, h)

\* create(): bind the three listeners, parse the value, wrap the element
create(m) ==
    LET listening == [m EXCEPT !.bound = TRUE]
        parsed    == [listening EXCEPT !.value = parseValue(listening)]
    IN  wrap(parsed)

\* initialize(): build container, form, interface and spinner, then create()
initialize(m) ==
    create([m EXCEPT !.containerKids = <<>>, !.formInput = <<>>])

\* destroy that removes the container and appends the element to the parent
destroy_append(m) ==
    LET unbound == Note([m EXCEPT !.bound = FALSE], "destroy", "", "", Undefined, 0)
    IN  [unbound EXCEPT
            !.parentKids = Append(Without(Without(@, "element"), "container"),
                                  "element"),
            !.containerKids = Without(@, "element"),
            !.value = Undefined]

\* destroy that removes the container and puts the element back as the
\* parent's first child
destroy_first(m) ==
    LET unbound == Note([m EXCEPT !.bound = FALSE], "destroy", "", "", Undefined, 0)
    IN  [unbound EXCEPT
            !.parentKids = << "element" >>
                              \o Without(Without(@, "element"), "container"),
            !.containerKids = Without(@, "element"),
            !.value = Undefined]

\* destroy(): unbind the listeners, put the element back in the container's
\* place (container.parentNode.replaceChild, which throws when the container
\* has no parent), delete this.value
destroy(m) ==
    LET unbound == Note([m EXCEPT !.bound = FALSE], "destroy", "", "", Undefined, 0)
    IN  IF Has(unbound.parentKids, "container")
        THEN [unbound EXCEPT
                 !.parentKids =
                     LET rest == Without(@, "element")
                     IN  [i \in 1..Len(rest) |->
                            IF rest[i] = "container" THEN "element" ELSE rest[i]],
                 !.containerKids = Without(@, "element"),
                 !.value = Undefined]
        ELSE Note(unbound, "throw", "TypeError", "", Undefined, 0)

----------------------------------------------------------------------------
\* normalizeElement

\* the values normalizeElement is handed: node references, strings,
\* functions (by what they return) and values of the other types
Element(n)  == [kind |-> "element", node |-> << "ref", n >>]
Function(r) == [kind |-> "function", returns |-> r]
Others      == { Null, Undefined, [kind |-> "number"], [kind |-> "object"] }
Markups     == { Str(<< "<div></div>" >>), Str(<< "<input>" >>) }
Plain       == { Element("a"), Element("b") } \cup Markups \cup Others

RECURSIVE Inputs(_)
Inputs(depth) ==
    IF depth = 0
    THEN Plain
    ELSE Plain \cup { Function(r) : r \in Inputs(depth - 1) }

\* type(el) of the "type" component
type(el) == el.kind

\* domify(html): a new node made from the markup
domify(html) == [kind |-> "element", node |-> << "domify" >> \o html.chars]

\* the receivers of a call: an instance (instance.normalizeElement(el)) or
\* none (the function taken off the prototype and called bare)
Receivers == { "instance", "undefined" }

NoNode == [kind |-> "none"]

Returned(node, calls) == [ret |-> node, thrown |-> "none", calls |-> calls]

Thrown(calls) == [ret |-> NoNode, thrown |-> "TypeError", calls |-> calls]

RECURSIVE normalizeElement_bare(_, _, _)
\* normalizeElement that calls the function as el() instead of el.call(this)
normalizeElement_bare(this, el, calls) ==
    CASE type(el) = "element"  -> Returned(el, calls)
      [] type(el) = "string"   -> Returned(domify(el), calls)
      [] type(el) = "function" ->
            IF this = "undefined"
            THEN Thrown(Append(calls, "undefined"))
            ELSE normalizeElement_bare(this, el.returns, Append(calls, "undefined"))
      [] OTHER                 -> Thrown(calls)

RECURSIVE normalizeElement(_, _, _)
\* normalizeElement(el) called on the receiver this; calls collects the
\* execution context of every function invoked.  With no receiver,
\* this.normalizeElement throws a TypeError after el.call(this) has run
normalizeElement(this, el, calls) ==
    CASE type(el) = "element"  -> Returned(el, calls)
      [] type(el) = "string"   -> Returned(domify(el), calls)
      [] type(el) = "function" ->
            IF this = "undefined"
            THEN Thrown(Append(calls, this))
            ELSE normalizeElement(this, el.returns, Append(calls, this))
      [] OTHER                 -> Thrown(calls)

\* no call of normalizeElement is being looked at
NoCall == [this |-> "undefined", el |-> Undefined, done |-> TRUE,
           out |-> Thrown(<<>>)]

----------------------------------------------------------------------------
\* the operations

\* the element's parent before the first construction: the element between
\* two siblings
Init_parentKids == << "before", "element", "after" >>

Init ==
    /\ state = "undefined"
    /\ value = Undefined
    /\ parentKids = Init_parentKids
    /\ containerKids = <<>>
    /\ elementText \in Texts
    /\ formInput = <<>>
    /\ bound = FALSE
    /\ closures = <<>>
    /\ inputQueue = <<>>
    /\ log = <<>>
    /\ norm = NoCall

Constructed == state # "undefined"

\* the state the entry leaves behind
Commit(m) ==
    /\ Len(m.closures) <= MaxEpisodes
    /\ state' = m.state
    /\ value' = m.value
    /\ parentKids' = m.parentKids
    /\ containerKids' = m.containerKids
    /\ elementText' = m.elementText
    /\ formInput' = m.formInput
    /\ bound' = m.bound
    /\ closures' = m.closures
    /\ inputQueue' = m.inputQueue
    /\ log' = m.log
    /\ norm' = norm

\* new InlineEdit({ element, initialState }): initialize(), then machina
\* transitions into initialState
Construct(initialState, h) ==
    /\ ~ Constructed
    /\ Commit(transition(initialize(Machine),
                         initialState, "init", h))

\* "click .inlineedit-content": a click on the mounted display element
Click(h) ==
    /\ Constructed /\ bound
    /\ Has(containerKids, "element")
    /\ Commit(proxyEvent(Machine, "click", h))

\* "submit .inlineedit-form": the mounted form is submitted
Submit(h) ==
    /\ Constructed /\ bound
    /\ Has(containerKids, "form")
    /\ Commit(proxyEvent(Machine, "submit", h))

\* "click .inlineedit-cancel": a click on the cancel button of the mounted form
Cancel(h) ==
    /\ Constructed /\ bound
    /\ Has(containerKids, "form")
    /\ Commit(proxyEvent(Machine, "cancel", h))

\* instance.handle(inputType) called directly with one of the UI triggers,
\* whatever is mounted
Handle(inputType, h) ==
    /\ Constructed
    /\ Commit(handle(Machine, inputType, NoErr, Undefined, h))

\* instance.transition(stateName) called by the owner of the instance
ForceTransition(newState, h) ==
    /\ Constructed
    /\ Commit(transition(Machine, newState, "forced", h))

\* the submitForm hook invokes completion callback k as done(err, newVal)
Done(k, err, newVal) ==
    /\ k \in 1..Len(closures)
    /\ closures[k].status # "orphaned"
    /\ Commit(SubmitCallback(Machine, k, err, newVal,
                             AsyncHook))

\* the user types into the form's input (or a script sets its value)
ChangeInput(s) ==
    /\ Constructed
    /\ s # formInput
    /\ formInput' = s
    /\ log' = <<>>
    /\ norm' = norm
    /\ UNCHANGED << state, value, parentKids, containerKids, elementText,
                    bound, closures, inputQueue >>

\* the submitForm behaviours that matter to an entry: only one that can
\* reach saving calls the hook
HooksIf(entersSaving) == IF entersSaving THEN Hooks ELSE { AsyncHook }

Next ==
    \/ \E s \in States : \E h \in HooksIf(s = "saving") : Construct(s, h)
    \/ Click(AsyncHook)
    \/ \E h \in Hooks : Submit(h)
    \/ Cancel(AsyncHook)
    \/ \E t \in UITriggers : \E h \in HooksIf(t = "submit") : Handle(t, h)
    \/ \E s \in States : \E h \in HooksIf(s = "saving") : ForceTransition(s, h)
    \/ \E k \in 1..MaxEpisodes : \E a \in DoneArgs : Done(k, a.err, a.newVal)
    \/ \E s \in Strings : ChangeInput(s)

Spec == Init /\ [][Next]_vars

\* the callbacks of an instance that is replaced by a fresh one
Orphaned(cs) == [k \in 1..Len(cs) |-> [val |-> Undefined, status |-> "orphaned"]]

\* instance.destroy() on the active instance
Destroy ==
    /\ Constructed /\ bound
    /\ Commit(destroy(Machine))

\* new InlineEdit({ element, initialState }) on the same display element
\* after the previous instance was destroyed, the element being where the
\* teardown put it: a fresh container, form and machine, that share nothing
\* with the destroyed instance (whose callbacks are followed no further)
Reconstruct(initialState, h) ==
    /\ Constructed /\ ~ bound
    /\ Has(parentKids, "element")
    /\ Commit(transition(initialize([Machine EXCEPT
                                        !.state = "undefined",
                                        !.value = Undefined,
                                        !.closures = Orphaned(@)]),
                         initialState, "init", h))

\* the life of an instance with its teardown, and that of its successors on
\* the same element
NextTeardown ==
    \/ \E s \in States : \E h \in HooksIf(s = "saving") : Construct(s, h)
    \/ Click(AsyncHook)
    \/ \E h \in Hooks : Submit(h)
    \/ Cancel(AsyncHook)
    \/ \E k \in 1..MaxEpisodes : \E a \in DoneArgs : Done(k, a.err, a.newVal)
    \/ \E s \in Strings : ChangeInput(s)
    \/ Destroy
    \/ \E s \in States : \E h \in HooksIf(s = "saving") : Reconstruct(s, h)

SpecTeardown == Init /\ [][NextTeardown]_vars

\* instance.create() on the instance that was torn down ("this can be run
\* more than once per instance, but only if/after destroy has been called
\* first"), the element being where destroy() put it
Create ==
    /\ Constructed /\ ~ bound
    /\ Has(parentKids, "element")
    /\ Commit(create(Machine))

\* the life of an instance that is torn down and set up again
NextReentrant ==
    \/ \E s \in States : \E h \in HooksIf(s = "saving") : Construct(s, h)
    \/ Click(AsyncHook)
    \/ \E h \in Hooks : Submit(h)
    \/ Cancel(AsyncHook)
    \/ \E k \in 1..MaxEpisodes : \E a \in DoneArgs : Done(k, a.err, a.newVal)
    \/ \E s \in Strings : ChangeInput(s)
    \/ Destroy
    \/ Create

SpecReentrant == Init /\ [][NextReentrant]_vars

\* one of the three delegated listeners fires: an event of the listener's
\* type on a node inside the container that matches the listener's selector.
\* With the default templates only the display element and the form hold
\* such nodes; formElement, interfaceElement and spinnerElement are
\* configurable, so any mounted node may
Proxy(inputType, h) ==
    /\ Constructed /\ bound
    /\ containerKids # <<>>
    /\ Commit(proxyEvent(Machine, inputType, h))

\* the instance driven by its delegated listeners and its completion
\* callbacks only: no caller uses handle() or transition()
NextUI ==
    \/ \E s \in States : \E h \in HooksIf(s = "saving") : Construct(s, h)
    \/ \E t \in UITriggers : \E h \in HooksIf(t = "submit") : Proxy(t, h)
    \/ \E k \in 1..MaxEpisodes : \E a \in DoneArgs : Done(k, a.err, a.newVal)
    \/ \E s \in Strings : ChangeInput(s)

SpecUI == Init /\ [][NextUI]_vars

----------------------------------------------------------------------------
\* reading the log

Entries(l, ev) == { i \in DOMAIN l : l[i].ev = ev }

EntriesOf(l, ev, a) == { i \in DOMAIN l : l[i].ev = ev /\ l[i].a = a }

\* the first thing the last entry into the component did
Began(l, ev, a) == l # <<>> /\ l[1].ev = ev /\ l[1].a = a

\* the last entry was a completion callback that the machine handled (only
\* callbacks dispatch success and error)
CallbackHandled(l) ==
    Began(l, "handling", "success") \/ Began(l, "handling", "error")

\* the last entry was a completion callback that the machine ignored
CallbackIgnored(l) ==
    Began(l, "nohandler", "success") \/ Began(l, "nohandler", "error")

Mounted(n) == Has(containerKids, n)

Nodes == { "element", "form", "spinner" }

\* the node each state shows
NodeOf(s) ==
    CASE s = "ready"   -> "element"
      [] s = "editing" -> "form"
      [] s = "saving"  -> "spinner"

\* the transitions of the states table: << trigger, source, target >>
Table ==
    { << "click", "ready", "editing" >>,
      << "cancel", "editing", "ready" >>,
      << "submit", "editing", "saving" >>,
      << "success", "saving", "ready" >>,
      << "error", "saving", "editing" >> }

----------------------------------------------------------------------------
\* C1: slot invariant.  After construction and after every completed entry
\* into the component, exactly one of the display element, the form and the
\* spinner is a child of the container: the display element iff the state
\* is ready, the form iff editing, the spinner iff saving.
C1_SlotInvariant ==
    Constructed =>
        /\ Cardinality({ n \in Nodes : Mounted(n) }) = 1
        /\ Len(containerKids) = 1
        /\ \A s \in States : Mounted(NodeOf(s)) <=> state = s

\* a caller forced the machine into saving and only the spinner is mounted
C1_Witness ==
    /\ Began(log, "transition", "ready")
    /\ log[1].c = "forced"
    /\ state = "saving"
    /\ containerKids = << "spinner" >>

\* C2: transition table.  Every state change made by a handler of a trigger
\* (a UI trigger or a completion callback) is one of click: ready->editing,
\* cancel: editing->ready, submit: editing->saving, success: saving->ready,
\* error: saving->editing; and a state change of any other origin (a
\* caller's transition(), the constructor's initial transition) is only ever
\* the first thing an entry into the component does, never the doing of a
\* trigger or a callback.
C2_TransitionTable ==
    \A i \in Entries(log, "transition") :
        /\ log[i].c \in Triggers => << log[i].c, log[i].a, log[i].b >> \in Table
        /\ log[i].c \notin Triggers => i = 1

\* a submit whose hook fails at once: editing->saving->editing in one entry
C2_Witness ==
    /\ Began(log, "preventDefault", "submit")
    /\ \E i, j \in Entries(log, "transition") :
          /\ i < j
          /\ << log[i].c, log[i].a, log[i].b >> = << "submit", "editing", "saving" >>
          /\ << log[j].c, log[j].a, log[j].b >> = << "error", "saving", "editing" >>

----------------------------------------------------------------------------
\* the step is an invocation of completion callback k as done(err, newVal)
DoneStep(k, err, newVal) ==
    /\ CallbackHandled(log') \/ CallbackIgnored(log')
    /\ Done(k, err, newVal)

\* the step submits the form (by the DOM event, by handle("submit") or by a
\* forced transition to saving) with the submitForm hook invoking its
\* callback before it returns, as h says
SubmitsSync(h) ==
    /\ h.mode = "sync"
    /\ EntriesOf(log', "handling", "success") \cup EntriesOf(log', "handling", "error") # {}
    /\ \/ Began(log', "preventDefault", "submit") /\ Submit(h)
       \/ Began(log', "handling", "submit") /\ Handle("submit", h)
       \/ Began(log', "transition", "editing") /\ ForceTransition("saving", h)

\* the display element was shown and then formatted with v
Rendered(l, v) ==
    \E i, j \in DOMAIN l :
        /\ i < j
        /\ l[i].ev = "showElement" /\ l[i].a = "element"
        /\ l[j].ev = "formatValue" /\ l[j].v = v

\* C3: save success with retained value.  When saving is entered from
\* editing, the callback captures the value processForm returns at that
\* moment; when that callback is then invoked with no arguments (at once or
\* later, whatever the form's input has become), the instance ends in ready,
\* currentValue is the captured value and the display element is shown and
\* formatted with it.
C3_RetainedValue ==
    [][ /\ (state = "editing" /\ Len(closures') > Len(closures))
            => closures'[Len(closures')].val = Str(formInput)
        /\ \A k \in 1..Len(closures) :
              (state = "saving" /\ k = Len(closures) /\ DoneStep(k, NoErr, Undefined))
              => /\ state' = "ready"
                 /\ value' = closures[k].val
                 /\ Rendered(log', closures[k].val)
                 /\ elementText' = trim(closures[k].val.chars)
        /\ \A h \in Hooks :
              (/\ h.err = NoErr /\ h.newVal = Undefined
               /\ state = "editing" /\ SubmitsSync(h))
              => /\ state' = "ready"
                 /\ value' = Str(formInput)
                 /\ Rendered(log', Str(formInput))
      ]_vars

\* the only callback was invoked as done() after the input had been changed:
\* the committed value is the captured one, not the input's
C3_Witness ==
    /\ Began(log, "handling", "success")
    /\ Len(closures) = 1
    /\ EntriesOf(log, "emit", "saved") # {}
    /\ state = "ready"
    /\ value = closures[1].val
    /\ value # Str(formInput)

\* C4: save success with replacement value.  When a completion callback is
\* invoked in saving with no error and a second argument X that is not
\* undefined (the empty string and null included), the instance ends in
\* ready with currentValue = X, whatever was read from the form.
C4_ReplacementValue ==
    [][ /\ \A k \in 1..Len(closures) : \A nv \in NewVals \ { Undefined } :
              (state = "saving" /\ DoneStep(k, NoErr, nv))
              => state' = "ready" /\ value' = nv
        /\ \A h \in Hooks :
              (/\ h.err = NoErr /\ h.newVal # Undefined
               /\ state = "editing" /\ SubmitsSync(h))
              => state' = "ready" /\ value' = h.newVal
      ]_vars

\* done(null, X) with a falsy X that differs from the submitted value
C4_Witness ==
    /\ Began(log, "handling", "success")
    /\ state = "ready"
    /\ value \in { Null, Str(<<>>) }
    /\ Len(closures) = 1
    /\ value # closures[1].val

\* notifications emitted by an entry into the component
Emits(l) == Entries(l, "emit")

\* C5: save failure.  When a completion callback is invoked in saving with an
\* error, whatever its second argument, the instance goes to editing,
\* currentValue is unchanged and exactly one notification is emitted: error,
\* carrying that error.
C5_SaveFailure ==
    [][ /\ \A k \in 1..Len(closures) : \A a \in DoneArgs :
              (state = "saving" /\ a.err # NoErr /\ DoneStep(k, a.err, a.newVal))
              => /\ state' = "editing"
                 /\ value' = value
                 /\ Cardinality(Emits(log')) = 1
                 /\ \A i \in Emits(log') : log'[i].a = "error" /\ log'[i].b = a.err
        /\ \A h \in Hooks :
              (h.err # NoErr /\ state = "editing" /\ SubmitsSync(h))
              => /\ state' = "editing"
                 /\ value' = value
                 /\ Cardinality(Emits(log')) = 1
                 /\ \A i \in Emits(log') : log'[i].a = "error" /\ log'[i].b = h.err
      ]_vars

\* done(err) or done(err, "") arrived in saving: back in editing, one error
\* notification, neither "" nor the submitted value committed
C5_Witness ==
    /\ Began(log, "handling", "error")
    /\ state = "editing"
    /\ Cardinality(Emits(log)) = 1
    /\ \E i \in Emits(log) : log[i].a = "error" /\ log[i].b = "e2"
    /\ Len(closures) = 1
    /\ value \notin { Str(<<>>), closures[1].val }

\* C6: after construction currentValue changes only in the success handler
\* of saving, to the value handed to that handler: no activation, submit,
\* cancel, error handling, ignored trigger, forced transition or input change
\* assigns it.
C6_ValueFrame ==
    [][ (Constructed /\ value' # value)
        => \E i \in EntriesOf(log', "handling", "success") : value' = log'[i].v
      ]_vars

\* a failed save of a value that differs from the committed one left the
\* committed one in place
C6_Witness ==
    /\ Began(log, "handling", "error")
    /\ state = "editing"
    /\ \E k \in 1..Len(closures) :
          closures[k].status = "called" /\ closures[k].val # value
    /\ formInput = InputString(value)

----------------------------------------------------------------------------
\* the step handles nothing: no state change, no assignment, no remount, no
\* notification
NoOpStep ==
    /\ state' = state
    /\ value' = value
    /\ containerKids' = containerKids
    /\ Emits(log') = {}
    /\ Entries(log', "handling") = {}

\* C7: once-only completion.  A second (or later) invocation of a completion
\* callback never re-enters success/error handling: it assigns no value,
\* emits no notification and causes no transition, whatever the instance has
\* done since the first invocation.
C7_OnceOnly ==
    [][ \A k \in 1..Len(closures) : \A a \in DoneArgs :
           (closures[k].status = "called" /\ DoneStep(k, a.err, a.newVal))
           => NoOpStep
      ]_vars

\* C8: stale completion.  The callback of an episode that a caller's
\* transition() ended before it fired is a no-op when it arrives, whatever
\* state the instance is in by then.
C8_StaleNoOp ==
    [][ \A k \in 1..Len(closures) : \A a \in DoneArgs :
           (closures[k].status = "abandoned" /\ DoneStep(k, a.err, a.newVal))
           => NoOpStep
      ]_vars

\* submitForm calls whose callback has not been invoked yet
Outstanding == { k \in 1..Len(closures) : closures[k].status # "called" }

\* C9: at most one submitForm call is outstanding at any time.
C9_OneOutstanding == Cardinality(Outstanding) <= 1

\* the (state, trigger) pairs for which the states table has no handler
Malformed ==
    { << "editing", "click" >>, << "saving", "click" >>,
      << "ready", "submit" >>, << "saving", "submit" >>,
      << "ready", "cancel" >>, << "saving", "cancel" >>,
      << "ready", "success" >>, << "editing", "success" >>,
      << "ready", "error" >>, << "editing", "error" >> }

\* the step dispatches trigger t into the machine: a UI trigger by
\* handle(t), success and error by a completion callback
Dispatches(t) ==
    /\ Began(log', "handling", t) \/ Began(log', "nohandler", t)
    /\ \/ t \in UITriggers /\ Handle(t, AsyncHook)
       \/ /\ t \in { "success", "error" }
          /\ \E k \in 1..Len(closures) : \E a \in DoneArgs :
                /\ (a.err # NoErr) <=> (t = "error")
                /\ Done(k, a.err, a.newVal)

\* C10: malformed triggers are ignored.  A trigger dispatched in a state that
\* has no handler for it leaves state, currentValue, the mounted node, the
\* display text and the form input unchanged, emits no notification, raises
\* no error and leaves nothing queued for replay.
C10_MalformedIgnored ==
    [][ \A p \in Malformed :
           (state = p[1] /\ Dispatches(p[2]))
           => /\ NoOpStep
              /\ elementText' = elementText
              /\ formInput' = formInput
              /\ Entries(log', "throw") = {}
              /\ inputQueue' = <<>>
      ]_vars

\* a click dispatched while a save is pending was dropped
C10_Witness ==
    /\ state = "saving"
    /\ Len(log) = 1
    /\ Began(log, "nohandler", "click")
    /\ inputQueue = <<>>

----------------------------------------------------------------------------
\* the step is a click on the display element / on the form's cancel button
ClickStep == Began(log', "preventDefault", "click") /\ Click(AsyncHook)

CancelStep == Began(log', "preventDefault", "cancel") /\ Cancel(AsyncHook)

\* C11: cancel round trip.  Activation from ready leaves currentValue alone
\* and mounts the form; the cancel that follows returns the instance to
\* ready with currentValue still unchanged, the display element the
\* container's only child, and formatValue(currentValue, displayElement) run
\* after the element was shown.
C11_CancelRoundTrip ==
    [][ /\ (state = "ready" /\ ClickStep)
           => /\ state' = "editing"
              /\ value' = value
              /\ containerKids' = << "form" >>
        /\ (state = "editing" /\ CancelStep)
           => /\ state' = "ready"
              /\ value' = value
              /\ containerKids' = << "element" >>
              /\ Rendered(log', value)
              /\ value.kind = "string" => elementText' = trim(value.chars)
      ]_vars

\* back in ready after a cancel, with the value parsed at construction and
\* the display text re-rendered from it although the input had been changed
C11_Witness ==
    /\ Began(log, "preventDefault", "cancel")
    /\ state = "ready"
    /\ containerKids = << "element" >>
    /\ closures = <<>>
    /\ value = Str(<<"a">>)
    /\ elementText = <<"a">>
    /\ Rendered(log, value)

\* the step is a teardown of the active instance
DestroyStep == Began(log', "destroy", "") /\ Destroy

\* where the node n is among the parent's children (0: nowhere)
PositionOf(kids, n) ==
    IF Has(kids, n) THEN CHOOSE i \in 1..Len(kids) : kids[i] = n ELSE 0

\* C12: teardown postcondition.  destroy() on the active instance, whatever
\* state it is in, leaves the three listeners unbound, the display element a
\* direct child of the original parent at the position the container had,
\* the container no longer in that parent, and currentValue discarded.
C12_TeardownPostcondition ==
    [][ DestroyStep
        => /\ ~ bound'
           /\ PositionOf(parentKids, "container") # 0
           /\ PositionOf(parentKids', "element") = PositionOf(parentKids, "container")
           /\ Len(parentKids') = Len(parentKids)
           /\ ~ Has(parentKids', "container")
           /\ ~ Has(containerKids', "element")
           /\ value' = Undefined
      ]_vars

\* torn down while a save was pending: the element is back between its
\* siblings, the spinner is left in the detached container
C12_Witness ==
    /\ Began(log, "destroy", "")
    /\ state = "saving"
    /\ ~ bound
    /\ parentKids = << "before", "element", "after" >>
    /\ containerKids = << "spinner" >>
    /\ value = Undefined
    /\ \E k \in DOMAIN closures : closures[k].status = "pending"

\* the step constructs the first instance on the element, in ready
FirstConstruction == state = "undefined" /\ Construct("ready", AsyncHook)

\* the step constructs a fresh instance, in ready, on the element that a
\* torn down instance had wrapped
FreshConstruction == Constructed /\ ~ bound /\ bound' /\ Reconstruct("ready", AsyncHook)

\* the structure a construction in ready builds around the element that is
\* at position p of the parent, with the text t
ReadyStructure(p, t) ==
    /\ PositionOf(parentKids', "container") = p
    /\ ~ Has(parentKids', "element")
    /\ Len(parentKids') = Len(parentKids)
    /\ containerKids' = << "element" >>
    /\ state' = "ready"
    /\ bound'
    /\ elementText' = t
    /\ value' = Str(trim(t))

\* C13: wrap/unwrap round trip.  A fresh instance constructed on the element
\* after destroy() (from whatever state the instance had reached) builds the
\* structure the first construction built: the original parent holds a
\* container at the element's position, whose only child is the display
\* element, state = ready, currentValue = parseValue(display element).
C13_WrapUnwrapRoundTrip ==
    [][ /\ FirstConstruction
           => ReadyStructure(PositionOf(parentKids, "element"), elementText)
        /\ FreshConstruction
           => /\ ReadyStructure(PositionOf(parentKids, "element"), elementText)
              /\ PositionOf(parentKids', "container")
                     = PositionOf(Init_parentKids, "element")
      ]_vars

\* a fresh instance in ready on the element, after the first one was torn
\* down with a save pending
C13_Witness ==
    /\ Began(log, "transition", "undefined")
    /\ state = "ready"
    /\ bound
    /\ parentKids = << "before", "container", "after" >>
    /\ containerKids = << "element" >>
    /\ value = Str(trim(elementText))
    /\ \E k \in DOMAIN closures : closures[k].status = "orphaned"

\* the saved notifications and the handled successes of the last entry
Saved(l) == EntriesOf(l, "emit", "saved")

Successes(l) == EntriesOf(l, "handling", "success")

\* the entry i of l is the start of a transition to ready
ToReady(l, i) == l[i].ev = "transition" /\ l[i].b = "ready"

\* C14 as claimed: saved is fired once per successful save, after
\* currentValue was updated to the committed value and after the transition
\* to ready was initiated.
C14_SavedAfterTransition ==
    /\ Cardinality(Saved(log)) = Cardinality(Successes(log))
    /\ \A i \in Saved(log) :
          /\ \E k \in Successes(log) : k < i /\ log[i].v = log[k].v
          /\ \E j \in DOMAIN log : j < i /\ ToReady(log, j)

\* C14 as the code has it: saved is fired once per successful save, after
\* currentValue was updated to the committed value and before the
\* transition to ready is initiated (the state is still saving).
C14_SavedBeforeTransition ==
    /\ Cardinality(Saved(log)) = Cardinality(Successes(log))
    /\ \A i \in Saved(log) :
          /\ i - 1 \in Successes(log)
          /\ log[i].v = log[i - 1].v
          /\ \A j \in DOMAIN log : j < i => ~ ToReady(log, j)
          /\ i + 1 \in DOMAIN log
          /\ ToReady(log, i + 1) /\ log[i + 1].a = "saving"
          /\ value = log[i].v

\* a submit whose hook reported success with "" before returning: saved was
\* emitted with "" already committed, then ready was entered
C14_Witness ==
    /\ Began(log, "preventDefault", "submit")
    /\ Saved(log) # {}
    /\ state = "ready"
    /\ value = Str(<<>>)
    /\ \E i \in Saved(log) : log[i].v = Str(<<>>) /\ ToReady(log, i + 1)

\* the last transition the last entry made
LastTransition(l) ==
    CHOOSE i \in Entries(l, "transition") :
        \A j \in Entries(l, "transition") : j <= i

\* the last entry into the component went into saving and left the newest
\* completion callback with the submitForm hook
JustEnteredSaving ==
    /\ state = "saving"
    /\ Entries(log, "transition") # {}
    /\ log[LastTransition(log)].b = "saving"
    /\ closures # <<>>
    /\ closures[Len(closures)].status = "pending"

\* the component as it was before the last entry went into saving
BeforeSaving ==
    LET from == log[LastTransition(log)].a
    IN  IF from = "undefined"
        THEN initialize([Machine EXCEPT !.state = "undefined",
                                        !.value = Undefined,
                                        !.parentKids = Init_parentKids,
                                        !.bound = FALSE,
                                        !.closures = <<>>])
        ELSE [Machine EXCEPT !.state = from,
                             !.containerKids = << NodeOf(from) >>,
                             !.closures = SubSeq(@, 1, Len(@) - 1)]

\* the same entry into saving with a submitForm hook that calls
\* done(err, newVal) before it returns
SyncSaving(err, newVal) ==
    transition(BeforeSaving, "saving", log[LastTransition(log)].c,
               [mode |-> "sync", err |-> err, newVal |-> newVal])

\* the notifications of an entry, in order
Notifications(l) == SelectSeq(l, LAMBDA e : e.ev = "emit")

\* C15: synchronous/asynchronous equivalence.  When the callback of the
\* saving entry is invoked later, with no other trigger in between, the
\* instance ends in the state, with the currentValue, the mounted node, the
\* display text and the notifications that the same entry ends with when
\* the hook invokes the callback with the same arguments before returning.
C15_SyncAsyncEquivalence ==
    [][ \A a \in DoneArgs :
          (JustEnteredSaving /\ DoneStep(Len(closures), a.err, a.newVal))
          => LET sync == SyncSaving(a.err, a.newVal)
             IN  /\ sync.state = state'
                 /\ sync.value = value'
                 /\ sync.containerKids = containerKids'
                 /\ sync.parentKids = parentKids'
                 /\ sync.elementText = elementText'
                 /\ Notifications(sync.log) = Notifications(log')
      ]_vars

\* the delayed callback of the first save reported an error: editing, the
\* form mounted, one error notification
C15_Witness ==
    /\ Began(log, "handling", "error")
    /\ state = "editing"
    /\ containerKids = << "form" >>
    /\ Len(closures) = 1
    /\ closures[1].status = "called"
    /\ Len(Notifications(log)) = 1

\* C17: for the active lifetime of the instance (constructed, not torn
\* down) the container is a child of the display element's original parent
\* at the position the display element had there, and the parent has no
\* other child more or less: no transition, trigger or callback moves or
\* removes the container.
C17_ContainerInPlace ==
    (Constructed /\ bound)
    => /\ PositionOf(parentKids, "container") = PositionOf(Init_parentKids, "element")
       /\ Len(parentKids) = Len(Init_parentKids)
       /\ \A i \in DOMAIN parentKids :
             parentKids[i] # "container" => parentKids[i] = Init_parentKids[i]

\* after two saves, the second one completed by a callback, the container
\* is still between the element's siblings
C17_Witness ==
    /\ state = "ready"
    /\ bound
    /\ CallbackHandled(log)
    /\ Len(closures) = 2
    /\ parentKids = << "before", "container", "after" >>
    /\ containerKids = << "element" >>

\* the calls of showElement that the last entry made while it ran the entry
\* action of the transition logged at i: those up to the next transition
Shows(l, i) ==
    { j \in Entries(l, "showElement") :
        /\ j > i
        /\ \A t \in Entries(l, "transition") : t > i => j < t }

\* the transition logged at i is the constructor's, into ready
InitialReady(l, i) == l[i].a = "undefined" /\ l[i].b = "ready"

\* C18 as claimed: showElement is called exactly once per state entry, the
\* initial-state entry at construction included, with the node of the
\* state entered, and never from anywhere else.
C18_ShowOncePerEntry ==
    /\ \A i \in Entries(log, "transition") :
          /\ Cardinality(Shows(log, i)) = 1
          /\ \A j \in Shows(log, i) : log[j].a = NodeOf(log[i].b)
    /\ \A j \in Entries(log, "showElement") :
          \E i \in Entries(log, "transition") : j \in Shows(log, i)

\* C18 as the code has it: showElement is called exactly once per state
\* entry, with the node of the state entered, except on the constructor's
\* entry into ready (initialState = ready), where it is not called; and
\* never from anywhere else.
C18_ShowOncePerEntryButInitialReady ==
    /\ \A i \in Entries(log, "transition") :
          /\ Cardinality(Shows(log, i)) = IF InitialReady(log, i) THEN 0 ELSE 1
          /\ \A j \in Shows(log, i) : log[j].a = NodeOf(log[i].b)
    /\ \A j \in Entries(log, "showElement") :
          \E i \in Entries(log, "transition") : j \in Shows(log, i)

\* a submit answered with success before submitForm returned: saving and
\* then ready were entered, the spinner and then the element were shown
C18_Witness ==
    /\ Began(log, "preventDefault", "submit")
    /\ state = "ready"
    /\ Cardinality(Entries(log, "transition")) = 2
    /\ Cardinality(Entries(log, "showElement")) = 2
    /\ \E i, j \in Entries(log, "showElement") :
          i < j /\ log[i].a = "spinner" /\ log[j].a = "element"

\* the transitions into ready that the last entry made
ReadyEntries(l) == { i \in Entries(l, "transition") : l[i].b = "ready" }

\* C19: the guard of the ready entry skips showing and formatting only on
\* the constructor's entry into ready (initialState = ready): the display
\* element stays mounted and its text is left alone.  Every other entry
\* into ready (by cancel, by success, by a forced transition from editing
\* or saving) shows the display element and then runs
\* formatValue(currentValue, displayElement), in that order.
C19_ReadyGuard ==
    [][ /\ FirstConstruction
           => /\ Entries(log', "showElement") = {}
              /\ Entries(log', "formatValue") = {}
              /\ containerKids' = << "element" >>
              /\ elementText' = elementText
        /\ \A i \in ReadyEntries(log') :
              ~ InitialReady(log', i)
              => /\ log'[i].a \in { "editing", "saving" }
                 /\ log'[i].c \in { "cancel", "success", "forced" }
                 /\ i + 2 \in DOMAIN log'
                 /\ log'[i + 1].ev = "showElement" /\ log'[i + 1].a = "element"
                 /\ log'[i + 2].ev = "formatValue" /\ log'[i + 2].v = value'
                 /\ containerKids' = << "element" >>
      ]_vars

\* ready entered by a forced transition out of saving: the element was
\* shown and then formatted with the committed value
C19_Witness ==
    /\ Began(log, "transition", "saving")
    /\ log[1].c = "forced"
    /\ state = "ready"
    /\ Len(log) = 3
    /\ log[2].ev = "showElement" /\ log[2].a = "element"
    /\ log[3].ev = "formatValue" /\ log[3].v = value
    /\ containerKids = << "element" >>

\* the transitions into editing that the last entry made
EditingEntries(l) == { i \in Entries(l, "transition") : l[i].b = "editing" }

\* C20: every entry into editing, from ready by activation and from saving
\* after a failed save alike, shows the form and then calls populateForm
\* with currentValue, the committed value: after a failed save the form
\* holds the committed value again, not the value that was submitted.
C20_EditingPopulates ==
    [][ \A i \in EditingEntries(log') :
          /\ i + 2 \in DOMAIN log'
          /\ log'[i + 1].ev = "showElement" /\ log'[i + 1].a = "form"
          /\ log'[i + 2].ev = "populateForm" /\ log'[i + 2].v = value'
          /\ state' = "editing"
          /\ containerKids' = << "form" >>
          /\ formInput' = InputString(value')
          /\ (log'[i].a = "saving" /\ Constructed) => value' = value
      ]_vars

\* a save of " a" failed while "a" was committed: editing again, the form
\* repopulated with "a"
C20_Witness ==
    /\ Began(log, "handling", "error")
    /\ state = "editing"
    /\ value = Str(<< "a" >>)
    /\ formInput = << "a" >>
    /\ \E k \in DOMAIN closures :
          closures[k].status = "called" /\ closures[k].val = Str(<< " ", "a" >>)
    /\ \E i \in EditingEntries(log) :
          log[i + 2].ev = "populateForm" /\ log[i + 2].v = Str(<< "a" >>)

\* C21: every proxied DOM event (click on the display node, submit of the
\* form, click on cancel) has its default action prevented, once, before the
\* trigger is dispatched into the machine, in every state, also where the
\* trigger is then ignored.
C21_PreventDefaultFirst ==
    [][ \A t \in UITriggers : \A h \in HooksIf(t = "submit") :
          Proxy(t, h)
          => /\ Began(log', "preventDefault", t)
             /\ EntriesOf(log', "preventDefault", t) = { 1 }
             /\ Len(log') >= 2
             /\ log'[2].a = t
             /\ IF << state, t >> \in Malformed
                THEN log'[2].ev = "nohandler" /\ Len(log') = 2
                ELSE log'[2].ev = "handling"
      ]_vars

\* a click arrived while a save was pending: its default was prevented and
\* the trigger was then ignored
C21_Witness ==
    /\ state = "saving"
    /\ Len(log) = 2
    /\ Began(log, "preventDefault", "click")
    /\ log[2].ev = "nohandler" /\ log[2].a = "click"

\* a save is pending: the instance is in saving and the callback of this
\* episode, the newest one, has not been invoked
SavePending ==
    /\ state = "saving"
    /\ closures # <<>>
    /\ closures[Len(closures)].status = "pending"

\* the step invokes the callback of the pending save
OwnCallback(err, newVal) ==
    /\ CallbackHandled(log')
    /\ Done(Len(closures), err, newVal)

\* C22, its safety part: while a save is pending no UI trigger changes
\* state, value or mounted node; the instance leaves saving only when the
\* callback of the pending save is invoked, for ready on success and for
\* editing on error, and stays in saving as long as it is not.
C22_PendingSave ==
    [][ SavePending
        => /\ \A t \in UITriggers : \A h \in HooksIf(t = "submit") :
                 Proxy(t, h)
                 => /\ state' = state
                    /\ value' = value
                    /\ containerKids' = containerKids
           /\ state' # "saving"
                 => \E a \in DoneArgs :
                       /\ OwnCallback(a.err, a.newVal)
                       /\ state' = IF a.err = NoErr THEN "ready" ELSE "editing"
      ]_vars

\* the step is a create() on the torn down instance
CreateStep == ~ bound /\ bound' /\ Create

\* C23: re-entrant create/destroy.  After destroy() followed by create() on
\* the same instance, whatever state it was in, the container has exactly
\* one child among the display element, the form and the spinner again:
\* the one of the instance's state.
C23_ReentrantSlot ==
    [][ CreateStep
        => /\ state' = state
           /\ containerKids' = << NodeOf(state') >>
      ]_vars

\* the instance was torn down and not set up again
TornDown == Constructed /\ ~ bound

\* C24: teardown is stable against a pending save.  When destroy() was
\* called while a completion callback was outstanding, the callback that
\* arrives afterwards does not move the display element out of its original
\* parent into the removed container, does not assign the discarded
\* currentValue again and emits neither saved nor error.
C24_TeardownStable ==
    [][ \A k \in 1..Len(closures) : \A a \in DoneArgs :
          (TornDown /\ closures[k].status = "pending"
                    /\ DoneStep(k, a.err, a.newVal))
          => /\ parentKids' = parentKids
             /\ Has(parentKids', "element")
             /\ ~ Has(containerKids', "element")
             /\ value' = value
             /\ Emits(log') = {}
      ]_vars

\* the calls of processForm and submitForm that the last entry made
FormReads(l) == Entries(l, "processForm") \cup Entries(l, "submitForm")

\* the call logged at i came after an entry into editing that populated the
\* form: one made earlier in the same entry into the component, or the one
\* that had brought the instance to editing, where the entry started
Populated(l, i) ==
    \/ state = "editing"
    \/ \E j \in Entries(l, "populateForm") : j < i

\* the call logged at i was made by the constructor's entry into saving
\* (initialState = saving)
InitialSaving(l, i) ==
    /\ state = "undefined"
    /\ l[1].ev = "transition" /\ l[1].b = "saving"
    /\ \A j \in Entries(l, "transition") : j = 1 \/ j > i

\* C25 as claimed: for every initialState (ready, editing, saving), each
\* call of processForm and of submitForm is preceded by an entry into
\* editing that populated the form (the instance being driven by its
\* listeners and callbacks).
C25_PopulatedBeforeSubmit ==
    [][ \A i \in FormReads(log') : Populated(log', i) ]_vars

\* C25 as the code has it: each call of processForm and of submitForm is
\* preceded by an entry into editing that populated the form, except the
\* calls of the constructor's entry into saving (initialState = saving),
\* which read the form as it was built.
C25_PopulatedUnlessInitialSaving ==
    [][ \A i \in FormReads(log') :
          Populated(log', i) \/ InitialSaving(log', i)
      ]_vars

\* the first save of an instance that was not constructed in saving: the
\* form that is read had been populated when editing was entered
C25_Witness ==
    /\ Began(log, "preventDefault", "submit")
    /\ state = "saving"
    /\ Len(closures) = 1
    /\ Entries(log, "processForm") # {}
    /\ Entries(log, "populateForm") = {}

----------------------------------------------------------------------------
\* normalizeElement on its own

InitNormalize ==
    /\ state = "undefined"
    /\ value = Undefined
    /\ parentKids = Init_parentKids
    /\ containerKids = <<>>
    /\ elementText \in Texts
    /\ formInput = <<>>
    /\ bound = FALSE
    /\ closures = <<>>
    /\ inputQueue = <<>>
    /\ log = <<>>
    /\ \E this \in Receivers : \E el \in Inputs(MaxDepth) :
          norm = [this |-> this, el |-> el, done |-> FALSE, out |-> Thrown(<<>>)]

\* the call runs
Normalize ==
    /\ ~ norm.done
    /\ norm' = [norm EXCEPT !.done = TRUE,
                            !.out = normalizeElement(norm.this, norm.el, <<>>)]
    /\ UNCHANGED << state, value, parentKids, containerKids, elementText,
                    formInput, bound, closures, inputQueue, log >>

NextNormalize == Normalize

SpecNormalize == InitNormalize /\ [][NextNormalize]_vars

\* how many functions have to be called to get at what el stands for, and
\* what that is
RECURSIVE Depth(_)
Depth(el) == IF el.kind = "function" THEN 1 + Depth(el.returns) ELSE 0

RECURSIVE Innermost(_)
Innermost(el) == IF el.kind = "function" THEN Innermost(el.returns) ELSE el

\* C16: element normalizer.  Called on an instance, normalizeElement
\* returns a node reference as it is and a node made from a markup string;
\* it invokes a function with the instance as execution context and
\* normalizes what it returns, so that a chain of functions resolves to its
\* innermost node or string; for any other kind of input, at any depth, it
\* throws and returns no node.
C16_ElementNormalizer ==
    (norm.done /\ norm.this = "instance" /\ norm # NoCall)
    => LET inner == Innermost(norm.el)
       IN  /\ norm.out.calls = [i \in 1..Depth(norm.el) |-> "instance"]
           /\ inner.kind = "element"
                 => norm.out.ret = inner /\ norm.out.thrown = "none"
           /\ inner.kind = "string"
                 => /\ norm.out.ret.kind = "element"
                    /\ norm.out.ret.node = << "domify" >> \o inner.chars
                    /\ norm.out.thrown = "none"
           /\ inner.kind \notin { "element", "string" }
                 => norm.out.ret = NoNode /\ norm.out.thrown = "TypeError"

\* a function returning a function returning markup, normalized on an
\* instance: both functions ran with the instance as context
C16_Witness ==
    /\ norm.done
    /\ norm.this = "instance"
    /\ norm.el = Function(Function(Str(<< "<input>" >>)))
    /\ norm.out.calls = << "instance", "instance" >>
    /\ norm.out.ret = domify(Str(<< "<input>" >>))

====
